---- MODULE Spec2Model ----
(***************************************************************************)
(* Cyberwar-Simulation: the game server (src/server.js), driven by the     *)
(* requests its clients send (the page of src/unnamed/part_000, or any     *)
(* other HTTP client).  Node runs each handler to completion, so a request *)
(* is one step.                                                            *)
(*                                                                         *)
(* Numbers.  security_level is a JS double; here it is an integer number   *)
(* of 1/SecUnit points, which is exact for the catalog values and random   *)
(* draws used (effectiveness in hundredths, Math.random() in twentieths).  *)
(* Scores of evaluate() are integers in 1/ScoreUnit points; +Infinity and  *)
(* -Infinity are the saturating values PosInf and NegInf.                  *)
(***************************************************************************)
EXTENDS Integers, Sequences, FiniteSets, TLC

VARIABLES
    gameState,       \* server.js: let gameState
    defenseHistory,  \* server.js: ai.defenseHistory
    attackPatterns,  \* server.js: data/attack_patterns.json, loaded once
    defenseOptions,  \* server.js: data/defense_options.json, loaded once
    response,        \* the last request and the response the server gave it
    applied          \* number of moves applied so far in the behaviour

vars == <<gameState, defenseHistory, attackPatterns, defenseOptions,
          response, applied>>

-----------------------------------------------------------------------------
(* Bounds of the model *)

MaxMoves == 5    \* moves applied in a behaviour, over all its games

-----------------------------------------------------------------------------
(* CONFIG, server.js:14-23 *)

MAX_SECURITY == 100
MIN_SECURITY == 0
INITIAL_RESOURCES == 100
TURN_RESOURCES_attacker == 10
TURN_RESOURCES_defender == 15
SECURITY_DECAY_RATE == 1

\* network.security_level of a new game (line 30), the threshold of the
\* resource-exhaustion verdict (line 228), new EnhancedMinimaxAI(4) (line
\* 217), the length kept in ai.defenseHistory (line 117)
INITIAL_SECURITY == 50
MIDPOINT == 50
DEPTH == 4
HISTORY_LIMIT == 5

\* fixed-point units
SecUnit == 100 * 100          \* security_level 1.0 = SecUnit
ScoreUnit == 15 * SecUnit     \* score 1.0 = ScoreUnit
PosInf == 2000 * 1000 * 1000  \* +Infinity
NegInf == 0 - PosInf          \* -Infinity

\* Math.random() in twentieths: r in [0, 1) is r20 / 20
Rolls == {0, 10}

\* The stream of Math.random() values one getBestMove call consumes, in call
\* order; position k of the stream is Draw(stream, k), read cyclically.
Streams == { <<10>>, <<19, 0, 10>> }

Draw(stream, k) == stream[(k % Len(stream)) + 1]

-----------------------------------------------------------------------------
(* Catalogs: the contents of data/attack_patterns.json and                 *)
(* data/defense_options.json.  Fields as read by server.js.                *)

Atk(i, t, c, d, e) ==
    [id |-> i, type |-> t, cost |-> c, damage |-> d, effectiveness |-> e]

Def(i, c, b, e, ea) ==
    [id |-> i, type |-> "defense", cost |-> c, security_boost |-> b,
     effectiveness |-> e, effective_against |-> ea]

Catalogs ==
    { \* an ordinary catalog
      [attacks  |-> << Atk(1, "network", 20, 20, 100), Atk(2, "malware", 35, 30, 90) >>,
       defenses |-> << Def(1, 15, 15, 90, {"network"}), Def(2, 30, 25, 80, {"malware"}) >>],
      \* an attack too dear to repeat, a defense strong enough to reach MAX_SECURITY
      [attacks  |-> << Atk(1, "network", 20, 20, 100), Atk(2, "exploit", 60, 30, 100) >>,
       defenses |-> << Def(1, 15, 15, 100, {"network"}), Def(2, 40, 80, 100, {"exploit"}) >>],
      \* defenses the regeneration cannot pay for
      [attacks  |-> << Atk(1, "network", 10, 10, 100) >>,
       defenses |-> << Def(1, 90, 20, 100, {"network"}), Def(2, 95, 25, 100, {}) >>],
      \* an attack that no defense can answer
      [attacks  |-> << Atk(1, "network", 20, 20, 100), Atk(2, "exploit", 50, 60, 100) >>,
       defenses |-> << Def(1, 15, 15, 100, {"network"}), Def(2, 30, 20, 90, {"exploit"}) >>] }

\* null (lastMove before any move, bestMove before any candidate, winner: null)
Null == [null |-> TRUE]

AttackIds == {attackPatterns[i].id : i \in DOMAIN attackPatterns}

\* attackPatterns.find(a => a.id === attackId); called on catalog ids only
AttackById(id) ==
    attackPatterns[CHOOSE i \in DOMAIN attackPatterns :
        /\ attackPatterns[i].id = id
        /\ \A j \in DOMAIN attackPatterns : attackPatterns[j].id = id => i <= j]

DefenseById(id) ==
    defenseOptions[CHOOSE i \in DOMAIN defenseOptions :
        /\ defenseOptions[i].id = id
        /\ \A j \in DOMAIN defenseOptions : defenseOptions[j].id = id => i <= j]

\* catalog.filter(m => resources >= m.cost): the subsequence, in catalog order
RECURSIVE FilterAffordable(_, _, _)
FilterAffordable(catalog, resources, i) ==
    IF i > Len(catalog) THEN << >>
    ELSE IF resources >= catalog[i].cost
         THEN << catalog[i] >> \o FilterAffordable(catalog, resources, i + 1)
         ELSE FilterAffordable(catalog, resources, i + 1)

Max(a, b) == IF a >= b THEN a ELSE b
Min(a, b) == IF a <= b THEN a ELSE b

\* IEEE addition of a finite number to a score that may be +-Infinity
AddScore(s, x) == IF s = PosInf \/ s = NegInf THEN s ELSE s + x

-----------------------------------------------------------------------------
(* The state after construction, server.js:26-34 and 234-242 *)

InitialGameState ==
    [turn |-> 0,
     attacker |-> [resources |-> INITIAL_RESOURCES, lastMove |-> Null, attacks |-> << >>],
     defender |-> [resources |-> INITIAL_RESOURCES, lastMove |-> Null, defenses |-> << >>],
     network |-> [security_level |-> INITIAL_SECURITY * SecUnit],
     gameOver |-> FALSE,
     winner |-> "null",   \* winner: null
     currentPlayer |-> "attacker"]

Init ==
    /\ gameState = InitialGameState
    /\ defenseHistory = << >>
    /\ \E c \in Catalogs :
          /\ attackPatterns = c.attacks
          /\ defenseOptions = c.defenses
    /\ response = [op |-> "none", status |-> 0, error |-> "", arg |-> 0, boost |-> 0]
    /\ applied = 0

-----------------------------------------------------------------------------
(* EnhancedMinimaxAI.processTurn, server.js:187-214 *)

\* mutant: the game ended without naming the winner
ProcessTurnWinNoWinner(state) ==
    IF state.network.security_level <= MIN_SECURITY * SecUnit
    THEN [state EXCEPT !.gameOver = TRUE]
    ELSE IF state.network.security_level >= MAX_SECURITY * SecUnit
    THEN [state EXCEPT !.gameOver = TRUE]
    ELSE IF state.attacker.resources <= 0 /\ state.defender.resources <= 0
    THEN [state EXCEPT !.gameOver = TRUE]
    ELSE state

ProcessTurnWin(state) ==
    IF state.network.security_level <= MIN_SECURITY * SecUnit
    THEN [state EXCEPT !.gameOver = TRUE, !.winner = "attacker"]
    ELSE IF state.network.security_level >= MAX_SECURITY * SecUnit
    THEN [state EXCEPT !.gameOver = TRUE, !.winner = "defender"]
    ELSE IF state.attacker.resources <= 0 /\ state.defender.resources <= 0
    THEN [state EXCEPT !.gameOver = TRUE,
                       !.winner = IF state.network.security_level >= MIDPOINT * SecUnit
                                  THEN "defender" ELSE "attacker"]
    ELSE state

\* mutant: the decay without its clamp at MIN_SECURITY
DecayUnclamped(level) == level - SECURITY_DECAY_RATE * SecUnit

Decay(level) == Max(MIN_SECURITY * SecUnit, level - SECURITY_DECAY_RATE * SecUnit)

ProcessTurnRegen(state) ==
    IF state.currentPlayer = "defender"
    THEN [state EXCEPT !.attacker.resources = @ + TURN_RESOURCES_attacker]
    ELSE [state EXCEPT !.defender.resources = @ + TURN_RESOURCES_defender]

processTurn(state) ==
    LET s1 == [state EXCEPT !.turn = @ + 1]
        s2 == ProcessTurnRegen(s1)
        s3 == [s2 EXCEPT !.network.security_level = Decay(@)]
    IN ProcessTurnWin(s3)

(* EnhancedMinimaxAI.simulateMove, server.js:161-185; r20 is the value of  *)
(* Math.random() in twentieths.                                            *)

SimDefenseBoost(move, r20) == move.security_boost * (100 + r20) * (SecUnit \div 100)

SimAttackDamage(move, r20) ==
    move.damage * move.effectiveness * (90 + r20) * (SecUnit \div 10000)

simulateMove(state, move, r20) ==
    IF move.type = "defense"
    THEN processTurn(
           [state EXCEPT
              !.defender.resources = @ - move.cost,
              !.network.security_level =
                  Min(MAX_SECURITY * SecUnit, @ + SimDefenseBoost(move, r20)),
              !.defender.lastMove = move,
              !.defender.defenses = Append(@, move),
              !.currentPlayer = "attacker"])
    ELSE processTurn(
           [state EXCEPT
              !.attacker.resources = @ - move.cost,
              !.network.security_level =
                  Max(MIN_SECURITY * SecUnit, @ - SimAttackDamage(move, r20)),
              !.attacker.lastMove = move,
              !.attacker.attacks = Append(@, move),
              !.currentPlayer = "defender"])

-----------------------------------------------------------------------------
(* EnhancedMinimaxAI.calculateDefenseEffectiveness and evaluate,           *)
(* server.js:42-79.  The average effectiveness times 20, in score units.   *)

RECURSIVE SumEffectiveness(_, _)
SumEffectiveness(s, i) ==
    IF i > Len(s) THEN 0 ELSE s[i].effectiveness + SumEffectiveness(s, i + 1)

\* defenseOptions.filter(defense => defense.effective_against.includes(attack.type))
RECURSIVE FilterEffective(_, _)
FilterEffective(attack, i) ==
    IF i > Len(defenseOptions) THEN << >>
    ELSE IF attack.type \in defenseOptions[i].effective_against
         THEN << defenseOptions[i] >> \o FilterEffective(attack, i + 1)
         ELSE FilterEffective(attack, i + 1)

EffectiveDefenses(attack) == FilterEffective(attack, 1)

\* calculateDefenseEffectiveness(attack) * 20
DefenseEffectivenessScore(attack) ==
    LET eds == EffectiveDefenses(attack)
    IN IF Len(eds) = 0 THEN 0
       ELSE (SumEffectiveness(eds, 1) * ((20 * ScoreUnit) \div 100)) \div Len(eds)

\* state.defender.defenses.slice(-3) holds three entries of one id
RepeatsLastThree(defenses) ==
    LET n == Len(defenses)
    IN /\ n >= 3
       /\ defenses[n].id = defenses[n - 1].id
       /\ defenses[n].id = defenses[n - 2].id

evaluate(state) ==
    IF state.gameOver
    THEN IF state.winner = "defender" THEN PosInf ELSE NegInf
    ELSE   state.network.security_level * ((60 * ScoreUnit) \div (MAX_SECURITY * SecUnit))
         + Min(20 * ScoreUnit,
               ((state.defender.resources - state.attacker.resources) * ScoreUnit) \div 5)
         + (IF state.attacker.lastMove # Null
            THEN DefenseEffectivenessScore(state.attacker.lastMove) ELSE 0)
         - (IF RepeatsLastThree(state.defender.defenses) THEN 15 * ScoreUnit ELSE 0)

-----------------------------------------------------------------------------
(* EnhancedMinimaxAI.minimax, server.js:123-159.  k is the position in the *)
(* stream of Math.random() values; the result carries the position after   *)
(* the call and the simulateMove calls made during it.                     *)

AvailableDefenses(state) == FilterAffordable(defenseOptions, state.defender.resources, 1)

\* mutant: every catalog attack, affordable or not
AvailableAttacksUnfiltered(state) == attackPatterns

AvailableAttacks(state) == FilterAffordable(attackPatterns, state.attacker.resources, 1)

SimCall(state, move, r20, newState) ==
    [from |-> state, move |-> move, r20 |-> r20, to |-> newState]

\* JSON.parse(JSON.stringify(state)): a new object with the same fields; the
\* values of a game state (finite numbers, strings, booleans, null, arrays of
\* catalog objects) survive the round trip
DeepCopy(state) ==
    [turn |-> state.turn,
     attacker |-> [resources |-> state.attacker.resources,
                   lastMove |-> state.attacker.lastMove,
                   attacks |-> state.attacker.attacks],
     defender |-> [resources |-> state.defender.resources,
                   lastMove |-> state.defender.lastMove,
                   defenses |-> state.defender.defenses],
     network |-> [security_level |-> state.network.security_level],
     gameOver |-> state.gameOver,
     winner |-> state.winner,
     currentPlayer |-> state.currentPlayer]

\* mutant: simulateMove applied to the caller's object itself
SimulateInPlace(state, move, r20) ==
    LET newState == simulateMove(state, move, r20)
    IN [live |-> newState, sim |-> newState]

\* line 95 (also 138, 153): simulateMove mutates the object it is given, here
\* a copy; live is the caller's object after the call, sim the object returned
SimulateOnCopy(state, move, r20) ==
    [live |-> state, sim |-> simulateMove(DeepCopy(state), move, r20)]

RECURSIVE minimax(_, _, _, _, _)
RECURSIVE MinimaxLoop(_, _, _, _, _, _, _, _, _)

MinimaxLoop(moves, i, state, depth, isMaximizing, stream, k, best, seen) ==
    IF i > Len(moves)
    THEN [val |-> best, k |-> k, seen |-> seen]
    ELSE LET call == SimulateOnCopy(state, moves[i], Draw(stream, k))
             newState == call.sim
             sub == minimax(newState, depth - 1, ~isMaximizing, stream, k + 1)
         IN MinimaxLoop(moves, i + 1, call.live, depth, isMaximizing, stream, sub.k,
                        IF isMaximizing THEN Max(best, sub.val) ELSE Min(best, sub.val),
                        seen \cup {SimCall(state, moves[i], Draw(stream, k), newState)}
                             \cup sub.seen)

minimax(state, depth, isMaximizing, stream, k) ==
    IF depth = 0 \/ state.gameOver
    THEN [val |-> evaluate(state), k |-> k, seen |-> {}]
    ELSE LET moves == IF isMaximizing THEN AvailableDefenses(state)
                      ELSE AvailableAttacks(state)
         IN IF Len(moves) = 0
            THEN [val |-> evaluate(state), k |-> k, seen |-> {}]
            ELSE MinimaxLoop(moves, 1, state, depth, isMaximizing, stream, k,
                             IF isMaximizing THEN NegInf ELSE PosInf, {})

-----------------------------------------------------------------------------
(* EnhancedMinimaxAI.getBestMove, server.js:81-121 *)

RECURSIVE CountId(_, _, _)
CountId(history, id, i) ==
    IF i > Len(history) THEN 0
    ELSE (IF history[i] = id THEN 1 ELSE 0) + CountId(history, id, i + 1)

\* mutant: the penalty looks at the most recent choice only
RootAdjustLastOnly(state, history, defense, score) ==
    LET lastAttack == state.attacker.lastMove
        bonus == IF lastAttack # Null /\ lastAttack.type \in defense.effective_against
                 THEN (10 * defense.effectiveness * ScoreUnit) \div 100 ELSE 0
        recentUses == IF Len(history) > 0 /\ history[Len(history)] = defense.id
                      THEN 1 ELSE 0
    IN AddScore(AddScore(score, bonus), 0 - recentUses * 5 * ScoreUnit)

\* bonus for countering the last attack, penalty for recent uses (lines 100-107)
RootAdjust(state, history, defense, score) ==
    LET lastAttack == state.attacker.lastMove
        bonus == IF lastAttack # Null /\ lastAttack.type \in defense.effective_against
                 THEN (10 * defense.effectiveness * ScoreUnit) \div 100 ELSE 0
        recentUses == CountId(history, defense.id, 1)
    IN AddScore(AddScore(score, bonus), 0 - recentUses * 5 * ScoreUnit)

\* line 109
Better(score, defense, bestScore, bestMove) ==
    \/ score > bestScore
    \/ (score = bestScore /\ bestMove # Null /\ defense.cost < bestMove.cost)

\* the loop of lines 93-113; state is the object getBestMove was given, as it
\* is when candidate i is reached
RECURSIVE RootLoop(_, _, _, _, _, _, _, _, _)
RootLoop(moves, i, state, history, stream, k, bestScore, bestMove, seen) ==
    IF i > Len(moves)
    THEN [move |-> bestMove, score |-> bestScore, k |-> k, seen |-> seen,
          live |-> state, scores |-> << >>]
    ELSE LET defense == moves[i]
             call == SimulateOnCopy(state, defense, Draw(stream, k))
             newState == call.sim
             sub == minimax(newState, DEPTH - 1, FALSE, stream, k + 1)
             score == RootAdjust(state, history, defense, sub.val)
             take == Better(score, defense, bestScore, bestMove)
             rest == RootLoop(moves, i + 1, call.live, history, stream, sub.k,
                              IF take THEN score ELSE bestScore,
                              IF take THEN defense ELSE bestMove,
                              seen \cup {SimCall(state, defense, Draw(stream, k), newState)}
                                   \cup sub.seen)
         \* scores: the adjusted score of each candidate, in loop order
         IN [rest EXCEPT !.scores = <<score>> \o @]

\* mutant: the chosen id pushed without the shift
PushHistoryNoShift(history, bestMove) ==
    IF bestMove = Null THEN history ELSE Append(history, bestMove.id)

\* lines 115-118
PushHistory(history, bestMove) ==
    IF bestMove = Null THEN history
    ELSE LET h == Append(history, bestMove.id)
         IN IF Len(h) > HISTORY_LIMIT THEN Tail(h) ELSE h

\* mutant: the candidates are not filtered by cost
getBestMoveUnfiltered(state, history, stream) ==
    LET r == RootLoop(defenseOptions, 1, state, history, stream, 0, NegInf, Null, {})
    IN [move |-> r.move, history |-> PushHistory(history, r.move), seen |-> r.seen,
        live |-> r.live, score |-> r.score, scores |-> r.scores]

getBestMove(state, history, stream) ==
    LET availableDefenses == AvailableDefenses(state)
    IN IF Len(availableDefenses) = 0
       THEN [move |-> Null, history |-> history, seen |-> {}, live |-> state,
             score |-> NegInf, scores |-> << >>]
       ELSE LET r == RootLoop(availableDefenses, 1, state, history, stream, 0,
                              NegInf, Null, {})
            IN [move |-> r.move, history |-> PushHistory(history, r.move),
                seen |-> r.seen, live |-> r.live, score |-> r.score, scores |-> r.scores]

-----------------------------------------------------------------------------
(* checkGameEnd, server.js:219-230 *)

\* mutant: the exhaustion tie at the midpoint given to the attacker
checkGameEndStrict(gs) ==
    IF gs.network.security_level <= MIN_SECURITY * SecUnit
    THEN [gs EXCEPT !.gameOver = TRUE, !.winner = "attacker"]
    ELSE IF gs.network.security_level >= MAX_SECURITY * SecUnit
    THEN [gs EXCEPT !.gameOver = TRUE, !.winner = "defender"]
    ELSE IF gs.attacker.resources <= 0 /\ gs.defender.resources <= 0
    THEN [gs EXCEPT !.gameOver = TRUE,
                    !.winner = IF gs.network.security_level > MIDPOINT * SecUnit
                               THEN "defender" ELSE "attacker"]
    ELSE gs

checkGameEnd(gs) ==
    IF gs.network.security_level <= MIN_SECURITY * SecUnit
    THEN [gs EXCEPT !.gameOver = TRUE, !.winner = "attacker"]
    ELSE IF gs.network.security_level >= MAX_SECURITY * SecUnit
    THEN [gs EXCEPT !.gameOver = TRUE, !.winner = "defender"]
    ELSE IF gs.attacker.resources <= 0 /\ gs.defender.resources <= 0
    THEN [gs EXCEPT !.gameOver = TRUE,
                    !.winner = IF gs.network.security_level >= MIDPOINT * SecUnit
                               THEN "defender" ELSE "attacker"]
    ELSE gs

(* app.post('/attack'), server.js:251-290 *)

\* mutant: the turn is checked before gameOver
AttackErrorTurnFirst(gs, attackId) ==
    IF gs.currentPlayer # "attacker" THEN "Not your turn"
    ELSE IF gs.gameOver THEN "Game has ended"
    ELSE IF attackId \notin AttackIds THEN "Invalid attack"
    ELSE IF gs.attacker.resources < AttackById(attackId).cost THEN "Not enough resources"
    ELSE ""

\* mutant: /attack without the check of the cost
AttackErrorNoCost(gs, attackId) ==
    IF gs.gameOver THEN "Game has ended"
    ELSE IF gs.currentPlayer # "attacker" THEN "Not your turn"
    ELSE IF attackId \notin AttackIds THEN "Invalid attack"
    ELSE ""

\* the error of the 400 response, "" when the request passes the checks
AttackError(gs, attackId) ==
    IF gs.gameOver THEN "Game has ended"
    ELSE IF gs.currentPlayer # "attacker" THEN "Not your turn"
    ELSE IF attackId \notin AttackIds THEN "Invalid attack"
    ELSE IF gs.attacker.resources < AttackById(attackId).cost THEN "Not enough resources"
    ELSE ""

\* mutant: the live attack rolled in the band of the search, 0.9 + 0.2 * random
LiveAttackDamageSimBand(attack, r20) ==
    attack.damage * attack.effectiveness * (90 + r20) * (SecUnit \div 10000)

\* attack.damage * attack.effectiveness * (0.8 + Math.random() * 0.4)
LiveAttackDamage(attack, r20) ==
    attack.damage * attack.effectiveness * (80 + 2 * r20) * (SecUnit \div 10000)

\* mutant: the attack's regeneration credited to the defender
AttackRegenToDefender(gs) == [gs EXCEPT !.defender.resources = @ + TURN_RESOURCES_defender]

AttackRegen(gs) == [gs EXCEPT !.attacker.resources = @ + TURN_RESOURCES_attacker]

\* mutant: the attack recorded as lastMove only, not pushed on attacks
ApplyAttackNoPush(gs, attack, r20) ==
    LET s1 == [gs EXCEPT
                 !.attacker.resources = @ - attack.cost,
                 !.network.security_level =
                     Max(MIN_SECURITY * SecUnit, @ - LiveAttackDamage(attack, r20)),
                 !.attacker.lastMove = attack,
                 !.currentPlayer = "defender"]
        s2 == [s1 EXCEPT !.turn = @ + 1]
        s3 == AttackRegen(s2)
        s4 == [s3 EXCEPT !.network.security_level = Decay(@)]
    IN checkGameEnd(s4)

\* lines 269-288
ApplyAttack(gs, attack, r20) ==
    LET s1 == [gs EXCEPT
                 !.attacker.resources = @ - attack.cost,
                 !.network.security_level =
                     Max(MIN_SECURITY * SecUnit, @ - LiveAttackDamage(attack, r20)),
                 !.attacker.lastMove = attack,
                 !.attacker.attacks = Append(@, attack),
                 !.currentPlayer = "defender"]
        s2 == [s1 EXCEPT !.turn = @ + 1]
        s3 == AttackRegen(s2)
        s4 == [s3 EXCEPT !.network.security_level = Decay(@)]
    IN checkGameEnd(s4)

(* app.post('/defend'), server.js:294-342 *)

\* defense.security_boost * defense.effectiveness * (0.9 + Math.random() * 0.2)
ActualBoost(defense, r20) ==
    defense.security_boost * defense.effectiveness * (90 + r20) * (SecUnit \div 10000)

DefendRegen(gs) == [gs EXCEPT !.defender.resources = @ + TURN_RESOURCES_defender]

\* mutant: the defense applied without handing the turn to the attacker
ApplyDefenseKeepsPlayer(gs, defense, r20) ==
    LET s1 == [gs EXCEPT
                 !.defender.resources = @ - defense.cost,
                 !.network.security_level =
                     Min(MAX_SECURITY * SecUnit, @ + ActualBoost(defense, r20)),
                 !.defender.lastMove = defense,
                 !.defender.defenses = Append(@, defense)]
        s2 == [s1 EXCEPT !.turn = @ + 1]
        s3 == DefendRegen(s2)
        s4 == [s3 EXCEPT !.network.security_level = Decay(@)]
    IN checkGameEnd(s4)

\* mutant: the defense applied without the decay that follows it
ApplyDefenseNoDecay(gs, defense, r20) ==
    LET s1 == [gs EXCEPT
                 !.defender.resources = @ - defense.cost,
                 !.network.security_level =
                     Min(MAX_SECURITY * SecUnit, @ + ActualBoost(defense, r20)),
                 !.defender.lastMove = defense,
                 !.defender.defenses = Append(@, defense),
                 !.currentPlayer = "attacker"]
        s2 == [s1 EXCEPT !.turn = @ + 1]
        s3 == DefendRegen(s2)
    IN checkGameEnd(s3)

\* lines 308-328
ApplyDefense(gs, defense, r20) ==
    LET s1 == [gs EXCEPT
                 !.defender.resources = @ - defense.cost,
                 !.network.security_level =
                     Min(MAX_SECURITY * SecUnit, @ + ActualBoost(defense, r20)),
                 !.defender.lastMove = defense,
                 !.defender.defenses = Append(@, defense),
                 !.currentPlayer = "attacker"]
        s2 == [s1 EXCEPT !.turn = @ + 1]
        s3 == DefendRegen(s2)
        s4 == [s3 EXCEPT !.network.security_level = Decay(@)]
    IN checkGameEnd(s4)

\* mutant: /defend without the gameOver check
DefendTurnErrorNoGameOver(gs) ==
    IF gs.currentPlayer # "defender" THEN "Not your turn" ELSE ""

\* lines 295-300: the checks made before the search is called
DefendTurnError(gs) ==
    IF gs.gameOver THEN "Game has ended"
    ELSE IF gs.currentPlayer # "defender" THEN "Not your turn"
    ELSE ""

Response(op, status, error, arg, boost) ==
    [op |-> op, status |-> status, error |-> error, arg |-> arg, boost |-> boost]

-----------------------------------------------------------------------------
(* The requests *)

\* GET /init, server.js:233-249
InitRequest ==
    /\ gameState' = InitialGameState
    /\ response' = Response("init", 200, "", 0, 0)
    /\ UNCHANGED <<defenseHistory, attackPatterns, defenseOptions, applied>>

\* POST /attack with body {attackId}, from any client (part_000:55-61)
AttackRequest(attackId, r20) ==
    LET err == AttackError(gameState, attackId)
    IN IF err # ""
       THEN /\ response' = Response("attack", 400, err, attackId, 0)
            /\ UNCHANGED <<gameState, defenseHistory, attackPatterns, defenseOptions,
                           applied>>
       ELSE /\ applied < MaxMoves
            /\ applied' = applied + 1
            /\ gameState' = ApplyAttack(gameState, AttackById(attackId), r20)
            /\ response' = Response("attack", 200, "", attackId, 0)
            /\ UNCHANGED <<defenseHistory, attackPatterns, defenseOptions>>

\* POST /defend, from any client at any time: the defend button, or the timer
\* a page arms after its attack, setTimeout(autoDefend, 1500), firing after
\* any number of other requests (part_000:76, 86-91, 203)
DefendRequest(stream) ==
    LET err == DefendTurnError(gameState)
    IN IF err # ""
       THEN /\ response' = Response("defend", 400, err, 0, 0)
            /\ UNCHANGED <<gameState, defenseHistory, attackPatterns, defenseOptions,
                           applied>>
       ELSE /\ applied < MaxMoves
            /\ \E best \in {getBestMove(gameState, defenseHistory, stream)} :
               LET defense == best.move
                   gs == best.live   \* the gameState object after the search
               IN \E r20 \in Rolls :
                     /\ defenseHistory' = best.history
                     /\ IF defense = Null \/ gs.defender.resources < defense.cost
                        THEN /\ response' = Response("defend", 400, "Cannot defend", 0, 0)
                             /\ gameState' = gs
                             /\ UNCHANGED applied
                        ELSE /\ applied' = applied + 1
                             /\ gameState' = ApplyDefense(gs, defense, r20)
                             /\ response' = Response("defend", 200, "", defense.id,
                                                     ActualBoost(defense, r20))
                     /\ UNCHANGED <<attackPatterns, defenseOptions>>

Next ==
    \/ InitRequest
    \/ \E attackId \in AttackIds \cup {0}, r20 \in Rolls : AttackRequest(attackId, r20)
    \/ \E stream \in Streams : DefendRequest(stream)

Spec == Init /\ [][Next]_vars

-----------------------------------------------------------------------------
(* The search as seen from the live state: /defend calls getBestMove when   *)
(* the game is not over and it is the defender's turn.                      *)

WouldSearch == ~gameState.gameOver /\ gameState.currentPlayer = "defender"

\* the simulateMove calls of the searches /defend can make in this state
SearchCalls ==
    IF WouldSearch
    THEN UNION {getBestMove(gameState, defenseHistory, stream).seen : stream \in Streams}
    ELSE {}

AttackApplied == response'.op = "attack" /\ response'.status = 200
DefenseApplied == response'.op = "defend" /\ response'.status = 200
RequestFailed == response'.op \in {"attack", "defend"} /\ response'.status = 400

-----------------------------------------------------------------------------
\* C1: in every live state and in every state simulateMove produces during a
\* search, MIN_SECURITY <= security_level <= MAX_SECURITY.
SecurityInRange(state) ==
    /\ MIN_SECURITY * SecUnit <= state.network.security_level
    /\ state.network.security_level <= MAX_SECURITY * SecUnit

C1_SecurityBounded ==
    /\ SecurityInRange(gameState)
    /\ \A c \in SearchCalls : SecurityInRange(c.to)

\* a search from a state an attack produced, in which one simulateMove call
\* clamps at MAX_SECURITY and another lowers the level
C1_Witness ==
    /\ response.op = "attack" /\ response.status = 200
    /\ \E c \in SearchCalls :
          /\ c.move.type = "defense"
          /\ c.from.network.security_level + SimDefenseBoost(c.move, c.r20)
                > MAX_SECURITY * SecUnit
    /\ \E c \in SearchCalls :
          /\ c.move.type # "defense"
          /\ c.to.network.security_level < c.from.network.security_level

\* C2: every applied /attack or /defend flips currentPlayer and adds exactly 1
\* to turn, every failed request changes neither, and the applied moves of a
\* game are attack, defense, attack, ... starting with an attack.
C2_Step ==
    /\ AttackApplied =>
          /\ gameState.currentPlayer = "attacker"
          /\ gameState'.currentPlayer = "defender"
          /\ gameState'.turn = gameState.turn + 1
    /\ DefenseApplied =>
          /\ gameState.currentPlayer = "defender"
          /\ gameState'.currentPlayer = "attacker"
          /\ gameState'.turn = gameState.turn + 1
    /\ RequestFailed =>
          /\ gameState'.currentPlayer = gameState.currentPlayer
          /\ gameState'.turn = gameState.turn

C2_Alternates ==
    /\ gameState.currentPlayer = (IF gameState.turn % 2 = 0 THEN "attacker" ELSE "defender")
    /\ Len(gameState.attacker.attacks) = (gameState.turn + 1) \div 2
    /\ Len(gameState.defender.defenses) = gameState.turn \div 2

C2_TurnAlternation == [][C2_Step]_vars /\ []C2_Alternates

\* two attacks and two defenses applied in one game
C2_Witness ==
    /\ gameState.turn = 4
    /\ gameState.currentPlayer = "attacker"
    /\ response.op = "defend" /\ response.status = 200

\* C3: once gameOver is true every /attack and /defend fails with 'Game has
\* ended' and changes nothing, and only /init sets gameOver back to false.
C3_Step ==
    gameState.gameOver =>
       \/ /\ response'.op = "init"
          /\ gameState' = InitialGameState
       \/ /\ RequestFailed
          /\ response'.error = "Game has ended"
          /\ gameState' = gameState
          /\ defenseHistory' = defenseHistory

C3_GameOverAbsorbing == [][C3_Step]_vars

C3_Witness ==
    /\ gameState.gameOver
    /\ response.op = "defend"
    /\ response.error = "Game has ended"

\* C4 (as claimed): a /defend whose realized boost raises security_level to
\* MAX_SECURITY returns a state with gameOver = true and winner = 'defender'.
C4_Step ==
    (/\ DefenseApplied
     /\ gameState.network.security_level + response'.boost >= MAX_SECURITY * SecUnit)
    => (gameState'.gameOver /\ gameState'.winner = "defender")

C4_ClampWinsForDefender == [][C4_Step]_vars

\* C5 (as claimed): after an applied move the regeneration goes to the side
\* about to act next and the side that just moved gains nothing.
C5_OriginalStep ==
    /\ AttackApplied =>
          /\ gameState'.defender.resources
                = gameState.defender.resources + TURN_RESOURCES_defender
          /\ gameState'.attacker.resources
                = gameState.attacker.resources - AttackById(response'.arg).cost
    /\ DefenseApplied =>
          /\ gameState'.attacker.resources
                = gameState.attacker.resources + TURN_RESOURCES_attacker
          /\ gameState'.defender.resources
                = gameState.defender.resources - DefenseById(response'.arg).cost

C5_RegenToNextSide == [][C5_OriginalStep]_vars

\* C5 (amended): after every applied move, in the live handlers and in the
\* search's processTurn, the regeneration is added to the side that just
\* moved: after an attack the attacker has resources - cost +
\* TURN_RESOURCES.attacker and the defender's are unchanged; after a defense
\* the defender has resources - cost + TURN_RESOURCES.defender and the
\* attacker's are unchanged.
RegenToMover(from, move, to) ==
    IF move.type = "defense"
    THEN /\ to.defender.resources
              = from.defender.resources - move.cost + TURN_RESOURCES_defender
         /\ to.attacker.resources = from.attacker.resources
    ELSE /\ to.attacker.resources
              = from.attacker.resources - move.cost + TURN_RESOURCES_attacker
         /\ to.defender.resources = from.defender.resources

C5_Step ==
    /\ AttackApplied => RegenToMover(gameState, AttackById(response'.arg), gameState')
    /\ DefenseApplied => RegenToMover(gameState, DefenseById(response'.arg), gameState')

C5_Search == \A c \in SearchCalls : RegenToMover(c.from, c.move, c.to)

C5_RegenToMover == [][C5_Step]_vars /\ []C5_Search

\* a defense has been applied after an attack, and the search has simulated
\* moves of both sides
C5_Witness ==
    /\ response.op = "attack" /\ response.status = 200
    /\ gameState.turn = 3
    /\ \E c \in SearchCalls : c.move.type = "defense"
    /\ \E c \in SearchCalls : c.move.type # "defense"

\* C6 (as claimed): getBestMove returns null exactly when no catalog defense
\* is affordable, and otherwise returns one of the affordable defenses.
RECURSIVE SeqToSet(_, _)
SeqToSet(s, i) == IF i > Len(s) THEN {} ELSE {s[i]} \cup SeqToSet(s, i + 1)

C6_BestMoveIffAffordable ==
    WouldSearch =>
       \A stream \in Streams :
          LET best == getBestMove(gameState, defenseHistory, stream).move
              affordable == SeqToSet(AvailableDefenses(gameState), 1)
          IN /\ (best = Null) <=> (affordable = {})
             /\ best # Null => best \in affordable

\* C7 (as claimed): simulateMove yields the same state as the live handler
\* applying the same move with the same random draw.
C7_SimulationMatchesLive ==
    ~gameState.gameOver =>
       \A r20 \in Rolls :
          /\ gameState.currentPlayer = "attacker" =>
                \A i \in DOMAIN attackPatterns :
                   gameState.attacker.resources >= attackPatterns[i].cost =>
                      simulateMove(gameState, attackPatterns[i], r20)
                         = ApplyAttack(gameState, attackPatterns[i], r20)
          /\ gameState.currentPlayer = "defender" =>
                \A i \in DOMAIN defenseOptions :
                   gameState.defender.resources >= defenseOptions[i].cost =>
                      simulateMove(gameState, defenseOptions[i], r20)
                         = ApplyDefense(gameState, defenseOptions[i], r20)

\* C8: /attack fails with 'Game has ended', 'Not your turn', 'Invalid attack'
\* or 'Not enough resources', checked in this order, leaving the game state
\* unchanged; in every other case the attack is applied.
AttackFailsWith(error) ==
    /\ response'.status = 400
    /\ response'.error = error
    /\ gameState' = gameState
    /\ defenseHistory' = defenseHistory

C8_Step ==
    response'.op = "attack" =>
       IF gameState.gameOver THEN AttackFailsWith("Game has ended")
       ELSE IF gameState.currentPlayer # "attacker" THEN AttackFailsWith("Not your turn")
       ELSE IF \A i \in DOMAIN attackPatterns : attackPatterns[i].id # response'.arg
            THEN AttackFailsWith("Invalid attack")
       ELSE IF gameState.attacker.resources < AttackById(response'.arg).cost
            THEN AttackFailsWith("Not enough resources")
       ELSE /\ response'.status = 200
            /\ gameState'.turn = gameState.turn + 1
            /\ gameState'.attacker.lastMove = AttackById(response'.arg)
            /\ gameState'.attacker.attacks
                  = Append(gameState.attacker.attacks, AttackById(response'.arg))

C8_AttackErrors == [][C8_Step]_vars

\* an attack of the catalog was refused for its cost, in a game where an
\* attack had been applied
C8_Witness ==
    /\ response.op = "attack"
    /\ response.error = "Not enough resources"
    /\ response.arg \in AttackIds
    /\ gameState.turn >= 2

\* C9: when the game is not over, it is the defender's turn and no catalog
\* defense is affordable, /defend fails with 'Cannot defend' and leaves the
\* game state and the AI's defenseHistory unchanged.
NoAffordableDefense(gs) ==
    \A i \in DOMAIN defenseOptions : gs.defender.resources < defenseOptions[i].cost

C9_Step ==
    (/\ response'.op = "defend"
     /\ ~gameState.gameOver
     /\ gameState.currentPlayer = "defender"
     /\ NoAffordableDefense(gameState))
    => /\ response'.status = 400
       /\ response'.error = "Cannot defend"
       /\ gameState' = gameState
       /\ defenseHistory' = defenseHistory

C9_CannotDefend == [][C9_Step]_vars

\* /defend was refused in a state where the defender, having paid for one
\* defense, can afford none
C9_Witness ==
    /\ response.op = "defend"
    /\ response.error = "Cannot defend"
    /\ NoAffordableDefense(gameState)
    /\ Len(defenseHistory) > 0

\* C10 (as claimed): getBestMove is a function of the game state and the depth
\* alone: the call made in this state returns what the call made in the equal
\* state of the server's first game returned.  The states compared are those
\* after one attack, where the first game's call saw an empty defenseHistory.
C10_SameStateSameMove ==
    (WouldSearch /\ gameState.turn = 1) =>
       \A stream \in Streams :
          getBestMove(gameState, defenseHistory, stream).move
             = getBestMove(gameState, << >>, stream).move

\* C10 (amended): with the random draws fixed, getBestMove is a function of
\* the game state, the depth and the AI's defenseHistory, and depends on the
\* defenseHistory only through the number of times each defense id occurs in
\* it: calls on equal game states whose histories hold the same ids, in any
\* order, return the same defense.
RECURSIVE Reorderings(_)
Reorderings(h) ==
    IF Len(h) = 0 THEN { << >> }
    ELSE UNION { { <<h[i]>> \o t :
                     t \in Reorderings(SubSeq(h, 1, i - 1) \o SubSeq(h, i + 1, Len(h))) }
                 : i \in 1..Len(h) }

C10_FunctionOfHistoryCounts ==
    WouldSearch =>
       \A stream \in Streams : \A h \in Reorderings(defenseHistory) :
          getBestMove(gameState, h, stream).move
             = getBestMove(gameState, defenseHistory, stream).move

\* the search is about to run with a history that holds two different ids
C10_Witness ==
    /\ WouldSearch
    /\ \E i, j \in DOMAIN defenseHistory : defenseHistory[i] # defenseHistory[j]
    /\ \E stream \in Streams : getBestMove(gameState, defenseHistory, stream).move # Null

\* C11: a call to getBestMove(gameState) leaves every field of the live game
\* state as it was: the object /defend goes on to use after the search is
\* the state it passed in, and a /defend refused after the search ('Cannot
\* defend') leaves gameState unchanged.
C11_SearchKeepsState ==
    WouldSearch =>
       \A stream \in Streams :
          getBestMove(gameState, defenseHistory, stream).live = gameState

C11_Step ==
    (response'.op = "defend" /\ response'.error = "Cannot defend")
       => gameState' = gameState

C11_SearchLeavesLiveState == []C11_SearchKeepsState /\ [][C11_Step]_vars

\* a search that simulated moves of both sides ended without a move, and the
\* request was refused
C11_Witness ==
    /\ response.op = "defend"
    /\ response.error = "Cannot defend"
    /\ \E c \in SearchCalls : c.move.type = "defense" /\ c.from = gameState
    /\ \E c \in SearchCalls : c.move.type # "defense"

\* C12: a successful /attack in a state with security_level s, with an attack
\* of damage d and effectiveness e and a roll multiplier m in [0.8, 1.2],
\* yields security_level = max(MIN, max(MIN, s - d*e*m) - SECURITY_DECAY_RATE),
\* attacker.lastMove = that attack, turn + 1 and currentPlayer = defender; from
\* the initial state with d = 20, e = 1.0 and m = 1 the level is 29, the turn
\* 1 and the defender to move.
C12_Level(s, d, e, m100) ==
    LET hit == IF s - d * e * m100 * (SecUnit \div 10000) > MIN_SECURITY * SecUnit
               THEN s - d * e * m100 * (SecUnit \div 10000)
               ELSE MIN_SECURITY * SecUnit
    IN IF hit - SECURITY_DECAY_RATE * SecUnit > MIN_SECURITY * SecUnit
       THEN hit - SECURITY_DECAY_RATE * SecUnit
       ELSE MIN_SECURITY * SecUnit

C12_Step ==
    AttackApplied =>
       LET attack == AttackById(response'.arg)
           s == gameState.network.security_level
       IN /\ \E r20 \in Rolls :
               LET m100 == 80 + 2 * r20
                   level == C12_Level(s, attack.damage, attack.effectiveness, m100)
               IN /\ gameState'.network.security_level = level
                  /\ (/\ s = 50 * SecUnit
                      /\ gameState.turn = 0
                      /\ attack.damage = 20
                      /\ attack.effectiveness = 100
                      /\ m100 = 100)
                        => /\ level = 29 * SecUnit
                           /\ gameState'.turn = 1
          /\ gameState'.attacker.lastMove = attack
          /\ gameState'.turn = gameState.turn + 1
          /\ gameState'.currentPlayer = "defender"

C12_AttackResult == [][C12_Step]_vars

\* the attack of damage 20 and effectiveness 1.0 applied to the initial state
\* with the nominal roll
C12_Witness ==
    /\ response.op = "attack" /\ response.status = 200
    /\ gameState.turn = 1
    /\ gameState.attacker.lastMove # Null
    /\ gameState.attacker.lastMove.damage = 20
    /\ gameState.attacker.lastMove.effectiveness = 100
    /\ gameState.network.security_level = 29 * SecUnit
    /\ gameState.currentPlayer = "defender"

------------------------------------------------------------------------------
(* The terminal check as a function of the state it is given: checkGameEnd  *)
(* (server.js:219-230) and the last step of processTurn (203-213) applied   *)
(* to states drawn around the thresholds of their three conditions.         *)

SecurityLevels ==
    { MIN_SECURITY * SecUnit, MIN_SECURITY * SecUnit + 1,
      MIDPOINT * SecUnit - 1, MIDPOINT * SecUnit,
      MAX_SECURITY * SecUnit - 1, MAX_SECURITY * SecUnit }

ResourceLevels == { 0, TURN_RESOURCES_attacker, INITIAL_RESOURCES }

InitEnd ==
    /\ \E level \in SecurityLevels, ra \in ResourceLevels, rd \in ResourceLevels,
          player \in {"attacker", "defender"} :
          gameState = [InitialGameState EXCEPT
                          !.network.security_level = level,
                          !.attacker.resources = ra,
                          !.defender.resources = rd,
                          !.currentPlayer = player]
    /\ defenseHistory = << >>
    /\ \E c \in Catalogs :
          /\ attackPatterns = c.attacks
          /\ defenseOptions = c.defenses
    /\ response = [op |-> "none", status |-> 0, error |-> "", arg |-> 0, boost |-> 0]
    /\ applied = 0

\* checkGameEnd() on the state
CheckGameEndCall ==
    /\ gameState' = checkGameEnd(gameState)
    /\ response' = Response("checkGameEnd", 0, "", 0, 0)
    /\ UNCHANGED <<defenseHistory, attackPatterns, defenseOptions, applied>>

\* the win conditions at the end of processTurn(state)
ProcessTurnWinCall ==
    /\ gameState' = ProcessTurnWin(gameState)
    /\ response' = Response("processTurn", 0, "", 0, 0)
    /\ UNCHANGED <<defenseHistory, attackPatterns, defenseOptions, applied>>

NextEnd == CheckGameEndCall \/ ProcessTurnWinCall

SpecEnd == InitEnd /\ [][NextEnd]_vars

\* C13: the terminal check (checkGameEnd and the one of processTurn) decides,
\* first match first: security_level <= MIN_SECURITY, the attacker wins;
\* otherwise security_level >= MAX_SECURITY, the defender wins; otherwise, both
\* sides' resources <= 0, the defender wins when security_level >= 50 (exactly
\* 50 included) and the attacker below 50; otherwise the state is left as it
\* was, not terminal.
C13_Ends(winner) ==
    gameState' = [gameState EXCEPT !.gameOver = TRUE, !.winner = winner]

C13_Step ==
    response'.op \in {"checkGameEnd", "processTurn"} =>
       LET level == gameState.network.security_level
       IN IF level <= MIN_SECURITY * SecUnit THEN C13_Ends("attacker")
          ELSE IF level >= MAX_SECURITY * SecUnit THEN C13_Ends("defender")
          ELSE IF gameState.attacker.resources <= 0 /\ gameState.defender.resources <= 0
               THEN IF level >= 50 * SecUnit
                    THEN C13_Ends("defender") ELSE C13_Ends("attacker")
          ELSE gameState' = gameState /\ ~gameState'.gameOver

C13_TerminalCheckOrder == [][C13_Step]_vars

\* both sides exhausted at exactly 50: the check has given the game to the
\* defender
C13_Witness ==
    /\ response.op = "checkGameEnd"
    /\ gameState.network.security_level = 50 * SecUnit
    /\ gameState.attacker.resources = 0
    /\ gameState.defender.resources = 0
    /\ gameState.gameOver
    /\ gameState.winner = "defender"

\* C14 (as claimed): among the affordable defenses, getBestMove returns one
\* whose adjusted root score (minimax value plus counter bonus minus
\* repetition penalty) is the maximum, and among those tied at the maximum
\* one of minimum cost.
C14_MaxThenCheapest(moves, scores, i) ==
    /\ \A j \in DOMAIN moves : scores[j] <= scores[i]
    /\ \A j \in DOMAIN moves : scores[j] = scores[i] => moves[i].cost <= moves[j].cost

C14_BestIsMaxThenCheapest ==
    WouldSearch =>
       \A stream \in Streams :
          LET best == getBestMove(gameState, defenseHistory, stream)
              moves == AvailableDefenses(gameState)
          IN Len(moves) > 0 =>
                \E i \in DOMAIN moves :
                   /\ best.move = moves[i]
                   /\ C14_MaxThenCheapest(moves, best.scores, i)

------------------------------------------------------------------------------
(* The server at the start of a later game: /init has reset gameState and   *)
(* ai.defenseHistory is what the earlier games left in it (server.js:38,    *)
(* 115-118, 233-249).                                                       *)

\* the catalog Catalogs calls ordinary
OrdinaryCatalog ==
    CHOOSE c \in Catalogs : \E i \in DOMAIN c.attacks : c.attacks[i].type = "malware"

\* ai.defenseHistory after four and after five rounds of an earlier game on
\* the ordinary catalog: attack 1 every round, Math.random() = 0.5 throughout
CarriedHistories == { <<1, 1, 2, 2>>, <<1, 1, 2, 2, 2>> }

InitCarried ==
    /\ gameState = InitialGameState
    /\ \E c \in Catalogs :
          /\ attackPatterns = c.attacks
          /\ defenseOptions = c.defenses
          /\ defenseHistory \in (IF c = OrdinaryCatalog THEN CarriedHistories ELSE {})
                                   \cup {<< >>}
    /\ response = Response("init", 200, "", 0, 0)
    /\ applied = 0

SpecCarried == InitCarried /\ [][Next]_vars

\* C15: ai.defenseHistory always has length <= 5; a getBestMove call that
\* returns a move appends the move's id at the end and, when the length would
\* exceed 5, evicts the oldest entry; a call that returns none leaves the
\* history unchanged; /init leaves it unchanged.
C15_Bounded == Len(defenseHistory) <= 5

C15_Step ==
    /\ response'.op = "init" => defenseHistory' = defenseHistory
    /\ (response'.op = "defend" /\ WouldSearch) =>
          IF response'.status = 200
          THEN defenseHistory' =
                  IF Len(defenseHistory) + 1 > 5
                  THEN SubSeq(defenseHistory, 2, Len(defenseHistory)) \o <<response'.arg>>
                  ELSE defenseHistory \o <<response'.arg>>
          ELSE defenseHistory' = defenseHistory

C15_RollingHistory == []C15_Bounded /\ [][C15_Step]_vars

\* a chosen defense has pushed the oldest id out of a full history
C15_Witness ==
    /\ response.op = "defend" /\ response.status = 200
    /\ Len(defenseHistory) = 5
    /\ SubSeq(defenseHistory, 1, 3) = <<1, 2, 2>>
    /\ defenseHistory[5] = response.arg

\* a search has returned none into a non-empty history
C15_WitnessNone ==
    /\ response.op = "defend" /\ response.error = "Cannot defend"
    /\ Len(defenseHistory) > 0

\* C16: in every live state and in every state of a search, winner is null
\* exactly when gameOver is false, and when gameOver is true winner is
\* 'attacker' or 'defender'.
WinnerMatchesGameOver(state) ==
    /\ (state.winner = "null") <=> ~state.gameOver
    /\ state.gameOver => state.winner \in {"attacker", "defender"}

C16_WinnerIffGameOver ==
    /\ WinnerMatchesGameOver(gameState)
    /\ \A c \in SearchCalls : WinnerMatchesGameOver(c.from) /\ WinnerMatchesGameOver(c.to)

\* a search that has simulated the game to its end, and gone on from states
\* that are not terminal
C16_Witness ==
    /\ \E c \in SearchCalls : c.to.gameOver /\ c.to.winner = "attacker"
    /\ \E c \in SearchCalls : ~c.to.gameOver /\ c.to.winner = "null"

\* C17: every move the search applies to a simulated state, at the root and
\* at every ply, costs no more than the resources of the side that makes it,
\* so no resources are negative in a state of the search; and a ply whose
\* side has no affordable move is evaluated as a leaf, without recursing.
MoverResources(c) ==
    IF c.move.type = "defense" THEN c.from.defender.resources
    ELSE c.from.attacker.resources

\* the states the calls reach by a root defense and an attack, in which the
\* defender, to move with two plies left, can afford nothing
DefenderStuck(calls) ==
    LET roots == { r.to : r \in { r \in calls : r.from = gameState } }
    IN { c.to : c \in { c \in calls :
                          /\ c.from \in roots
                          /\ ~c.to.gameOver
                          /\ Len(AvailableDefenses(c.to)) = 0 } }

C17_SearchAffordable ==
    \A calls \in {SearchCalls} :
       /\ \A c \in calls :
             /\ c.move.cost <= MoverResources(c)
             /\ c.to.attacker.resources >= 0
             /\ c.to.defender.resources >= 0
       /\ \A stuck \in {DefenderStuck(calls)} :
             \A state \in stuck :
                /\ \A c \in calls : c.from # state
                /\ \A stream \in Streams :
                      minimax(state, DEPTH - 2, TRUE, stream, 0)
                         = [val |-> evaluate(state), k |-> 0, seen |-> {}]

\* a search with moves of both sides that reached a defender ply with no
\* affordable defense
C17_Witness ==
    \E calls \in {SearchCalls} :
       /\ \E c \in calls : c.move.type = "defense" /\ c.move.cost > 0
       /\ \E c \in calls : c.move.type # "defense" /\ c.move.cost > 0
       /\ DefenderStuck(calls) # {}

\* C18: in every live state both sides' resources are >= 0, and once a side
\* has made a move its resources are at least its regeneration (attacker >=
\* 10, defender >= 15); so the exhaustion branch of the terminal check (both
\* resources <= 0) is never taken in live play.
C18_ResourcesAboveRegen ==
    /\ gameState.attacker.resources >= 0
    /\ gameState.defender.resources >= 0
    /\ Len(gameState.attacker.attacks) > 0 => gameState.attacker.resources >= 10
    /\ Len(gameState.defender.defenses) > 0 => gameState.defender.resources >= 15
    /\ ~(gameState.attacker.resources <= 0 /\ gameState.defender.resources <= 0)

\* both sides have moved and each has spent more than it regained
C18_Witness ==
    /\ Len(gameState.attacker.attacks) > 0
    /\ Len(gameState.defender.defenses) > 0
    /\ gameState.attacker.resources <= 50
    /\ gameState.defender.resources < INITIAL_RESOURCES

\* C19: in every live state after at least one applied move, security_level
\* <= MAX_SECURITY - SECURITY_DECAY_RATE = 99, so the condition security_level
\* >= MAX_SECURITY never holds at the check and no live state has winner =
\* 'defender'.
C19_NeverDefenderWin ==
    /\ gameState.turn >= 1 => gameState.network.security_level <= 99 * SecUnit
    /\ gameState.network.security_level < MAX_SECURITY * SecUnit
    /\ gameState.winner # "defender"

\* a defense has lifted the level to the clamp and the decay has taken it to
\* 99: the game goes on
C19_Witness ==
    /\ response.op = "defend" /\ response.status = 200
    /\ gameState.network.security_level = 99 * SecUnit
    /\ ~gameState.gameOver

\* C20: in every live state turn = length(attacker.attacks) +
\* length(defender.defenses); currentPlayer is 'attacker' exactly when the two
\* histories have the same length and 'defender' exactly when attacks is one
\* longer; each applied move appends exactly one entry to the mover's history
\* and leaves the earlier entries, and the other history, as they were; and
\* each side's lastMove is the last entry of its history, null when empty.
LastOf(history) == IF Len(history) = 0 THEN Null ELSE history[Len(history)]

C20_Histories ==
    LET attacks == gameState.attacker.attacks
        defenses == gameState.defender.defenses
    IN /\ gameState.turn = Len(attacks) + Len(defenses)
       /\ gameState.currentPlayer = "attacker" <=> Len(attacks) = Len(defenses)
       /\ gameState.currentPlayer = "defender" <=> Len(attacks) = Len(defenses) + 1
       /\ gameState.attacker.lastMove = LastOf(attacks)
       /\ gameState.defender.lastMove = LastOf(defenses)

C20_Step ==
    /\ AttackApplied =>
          /\ Len(gameState'.attacker.attacks) = Len(gameState.attacker.attacks) + 1
          /\ SubSeq(gameState'.attacker.attacks, 1, Len(gameState.attacker.attacks))
                = gameState.attacker.attacks
          /\ gameState'.defender.defenses = gameState.defender.defenses
    /\ DefenseApplied =>
          /\ Len(gameState'.defender.defenses) = Len(gameState.defender.defenses) + 1
          /\ SubSeq(gameState'.defender.defenses, 1, Len(gameState.defender.defenses))
                = gameState.defender.defenses
          /\ gameState'.attacker.attacks = gameState.attacker.attacks

C20_TurnCountsHistories == []C20_Histories /\ [][C20_Step]_vars

\* two attacks and one defense applied, the defender to move
C20_Witness ==
    /\ Len(gameState.attacker.attacks) = 2
    /\ Len(gameState.defender.defenses) = 1
    /\ gameState.turn = 3
    /\ gameState.currentPlayer = "defender"
    /\ gameState.attacker.lastMove = gameState.attacker.attacks[2]

------------------------------------------------------------------------------
(* The server on catalogs whose cheapest attack costs no more than the      *)
(* attacker's regeneration and whose cheapest defense no more than the      *)
(* defender's.                                                              *)

CheapCatalogs ==
    { \* a cheap probe, and an exploit that takes the network down whatever the
      \* roll (120 * 0.8 > MAX_SECURITY); two cheap defenses
      [attacks  |-> << Atk(1, "network", 10, 10, 100), Atk(2, "exploit", 50, 120, 100) >>,
       defenses |-> << Def(1, 15, 15, 100, {"network"}), Def(2, 30, 20, 90, {"exploit"}) >>],
      \* cheap moves only
      [attacks  |-> << Atk(1, "network", 10, 10, 100) >>,
       defenses |-> << Def(1, 15, 15, 100, {"network"}) >>] }

InitCheap ==
    /\ gameState = InitialGameState
    /\ defenseHistory = << >>
    /\ \E c \in CheapCatalogs :
          /\ attackPatterns = c.attacks
          /\ defenseOptions = c.defenses
    /\ response = [op |-> "none", status |-> 0, error |-> "", arg |-> 0, boost |-> 0]
    /\ applied = 0

SpecCheap == InitCheap /\ [][Next]_vars

\* C21 (as claimed): when the cheapest attack costs at most 10 and the
\* cheapest defense at most 15, in every live state with gameOver = false the
\* request of the side to move can succeed: some /attack passes the checks
\* on the attacker's turn, and /defend finds a defense on the defender's.
CheapMovesExist ==
    /\ \E i \in DOMAIN attackPatterns : attackPatterns[i].cost <= TURN_RESOURCES_attacker
    /\ \E i \in DOMAIN defenseOptions : defenseOptions[i].cost <= TURN_RESOURCES_defender

C21_AttackerCanMove ==
    (CheapMovesExist /\ ~gameState.gameOver /\ gameState.currentPlayer = "attacker")
       => \E attackId \in AttackIds : AttackError(gameState, attackId) = ""

C21_NeverStuck ==
    /\ C21_AttackerCanMove
    /\ (CheapMovesExist /\ WouldSearch)
          => \E stream \in Streams :
                getBestMove(gameState, defenseHistory, stream).move # Null

====
